---- MODULE Spec2Model ----
(***************************************************************************)
(* backboard: the sync controller (syncLoop / syncAll / syncRepo /         *)
(* syncPR / isPRUpToDate), the snapshot swap under repoLock, the request   *)
(* handler serveBoard and the Commit Index (commits.insert / truncate).    *)
(***************************************************************************)
EXTENDS Integers, Sequences, FiniteSets, TLC

(***************************************************************************)
(* Bounds                                                                  *)
(***************************************************************************)
\* review records that exist on the forge in the paging specification
NumPRs == 3
\* review records that exist on the forge in the full specification
NumFullPRs == 1
\* remote update timestamps are 1..MaxTime; the forge stops changing there
MaxTime == 6
\* remote changes allowed in the full specification
MaxFullTime == 2
\* page size of the listing (github.ListOptions.PerPage, scaled down)
PerPage == 1
\* head versions a review record's branch goes through (0..MaxHead)
MaxHead == 1
\* mainline versions the forge goes through (1..MaxMaster)
MaxMaster == 2
\* longest Commit Index enumerated for the Commit Index operations
MaxLen == 4
\* distinct hashes of the commits of an enumerated Commit Index
NumShas == 4
\* most release branches of the mirror bootstrap reads
MaxBranches == 3
\* most commits in scope of a request whose annotations are enumerated
MaxRows == 3
\* entries of the configured list `repos` that syncAll loops over
NumRepos == 3
\* times one repository's value is republished
MaxPublished == 4

(***************************************************************************)
(* Commits and the Commit Index                                            *)
(***************************************************************************)
\* type commit struct {sha, Author, title, body, merge} (CommitDate is not
\* read by any operation modelled here)
Commit(s, t, a, m) == [sha |-> s, title |-> t, body |-> <<>>, author |-> a, merge |-> m]

\* sha1 over the title bytes followed by the body bytes; the hash itself is
\* taken to be injective on the byte string it is fed
MessageID(c) == c.title \o c.body

EmptyCommits == [commits |-> <<>>, shas |-> {}, messageIDs |-> {}]

\* the fingerprint of the record is not registered
insertShaOnly(cs, c) ==
    [commits    |-> Append(cs.commits, c),
     shas       |-> cs.shas \cup {c.sha},
     messageIDs |-> cs.messageIDs]

\* commits.insert: append, then register the hash and the fingerprint
insert(cs, c) ==
    [commits    |-> Append(cs.commits, c),
     shas       |-> cs.shas \cup {c.sha},
     messageIDs |-> cs.messageIDs \cup {MessageID(c)}]

RECURSIVE insertAll(_, _)
insertAll(cs, log) ==
    IF log = <<>> THEN cs ELSE insertAll(insert(cs, Head(log)), Tail(log))

\* loadCommits for well-formed `git log` output: one insert per line
loadCommits(log) == insertAll(EmptyCommits, log)

RECURSIVE truncateFrom(_, _, _)
truncateFrom(list, marker, out) ==
    IF list = <<>> THEN out
    ELSE IF Head(list).sha = marker THEN out
    ELSE IF ~Head(list).merge
         THEN truncateFrom(Tail(list), marker, Append(out, Head(list)))
         ELSE truncateFrom(Tail(list), marker, out)

\* `continue` in place of `break`: only the marker commit itself is left out
truncateContinue(cs, marker) ==
    LET keep(c) == c.sha # marker /\ ~c.merge
    IN SelectSeq(cs.commits, keep)

truncate(cs, marker) == truncateFrom(cs.commits, marker, <<>>)

(***************************************************************************)
(* The History Source: what `git log` returns in the mirror               *)
(***************************************************************************)
\* the commits of review record id: hash 10*id + n; the title is shared by a
\* mainline record (odd id) and the record that backports it (the next id)
PRCommit(id, n) == Commit(10 * id + n, <<(id + 1) \div 2, n>>, "x", FALSE)
MergeCommit == Commit(1, <<0, 0>>, "y", TRUE)

\* `git log refs/pull/N/head ^base` for the head versions a record goes through
HeadLog(id, h) ==
    IF h = 0 THEN <<PRCommit(id, 2), PRCommit(id, 1)>>
    ELSE IF h = 1 THEN <<PRCommit(id, 3)>>
    ELSE <<>>

\* `git log master` at the mainline versions the forge goes through
MasterLog(v) == IF v = 1 THEN HeadLog(1, 0) ELSE <<MergeCommit>> \o HeadLog(1, 0)
Branches == <<"release-1">>
\* `git log release-1 ^master` and `git merge-base master release-1`
BranchLog(b) == <<PRCommit(2, 1)>>
MergeBaseOf(b) == PRCommit(1, 1).sha

BaseBranch(id) == IF id % 2 = 1 THEN "master" ELSE "release-1"


(***************************************************************************)
(* State                                                                   *)
(***************************************************************************)
VARIABLES
    remote,       \* forge: id -> [updatedAt, state, head] of each review record
    gitMaster,    \* forge: version of the mainline branch
    mirror,       \* local mirror after the last `git fetch`: [master, heads]
    prs,          \* store table prs: id -> NoRow or the row
    pr_commits,   \* store table pr_commits: id -> rows of that pr_id, by ordering
    repos,        \* repos[0]: the published repository value
    repoLock,     \* sync.RWMutex: [w |-> writer holds it, r |-> readers holding it]
    pc,           \* syncLoop's position: "sleep", "start" and the steps of syncRepo
    allPRs,       \* syncRepo's allPRs
    page,         \* syncRepo's opts.Page (1 for the first request)
    repoCopy,     \* syncRepo's repoCopy
    rpc,          \* serveBoard's position
    re,           \* serveBoard's local re
    commits,      \* serveBoard's local commits
    req,          \* serveBoard's request: the query parameters repo, branch, author
    branch,       \* serveBoard's local branch
    acommits,     \* serveBoard's local acommits
    err,          \* serveBoard's return value: "" for nil
    gitRepo,      \* the cloned mirror bootstrap reads: [branches, master]
    ev,           \* the last step taken (what the log line of that step says)
    lastPass,     \* how the last finished pass returned: "none", "ok", "err"
    quiet,        \* pass boundaries (starts and ends) since the last remote change, capped
    cycle         \* syncAll's loop over the configured repositories

vars == <<remote, gitMaster, mirror, prs, pr_commits, repos, repoLock, pc, allPRs,
          page, repoCopy, rpc, re, commits, req, branch, acommits, err, gitRepo,
          ev, lastPass, quiet, cycle>>

forgeVars == <<remote, gitMaster>>
storeVars == <<prs, pr_commits>>
syncVars == <<pc, allPRs, page, repoCopy, cycle>>
readerVars == <<rpc, re, commits, req, branch, acommits, err, gitRepo>>

NoRow == [present |-> FALSE]
\* the step just taken: what it did, and the record (id, fetched timestamp) it was about
Ev(op) == [op |-> op, id |-> 0, at |-> 0]
EvPR(op, p) == [op |-> op, id |-> p.id, at |-> p.updatedAt]
IDs == DOMAIN remote
BranchSet == {Branches[k] : k \in DOMAIN Branches}
Min(a, b) == IF a < b THEN a ELSE b

\* repos[i].id as bootstrap's INSERT ... RETURNING id sets it for the one repository
RepoID == 1

\* syncAll is not running and has republished nothing
NoCycle == [i |-> 0, synced |-> <<>>, result |-> "none",
            published |-> <<>>, before |-> <<>>]

\* what bootstrap read is not kept once it has returned
NoGitRepo == [branches |-> <<>>, master |-> <<>>]

\* the zero value of type repo
ZeroRepo ==
    [id |-> 0, releaseBranches |-> <<>>,
     masterCommits |-> EmptyCommits, branchCommits |-> <<>>, branchMergeBases |-> <<>>,
     masterPRs |-> <<>>, branchPRs |-> <<>>]

(***************************************************************************)
(* The Issue Tracker API: PullRequests.List sorted by updated, descending  *)
(***************************************************************************)
Clock == LET S == {remote[id].updatedAt : id \in IDs}
         IN CHOOSE t \in S : \A u \in S : u <= t

Rank(id) == 1 + Cardinality({j \in IDs : remote[j].updatedAt > remote[id].updatedAt})

PullRequest(id) ==
    [id |-> id, updatedAt |-> remote[id].updatedAt, state |-> remote[id].state,
     base |-> BaseBranch(id)]

RemoteList ==
    [k \in 1 .. Cardinality(IDs) |-> PullRequest(CHOOSE id \in IDs : Rank(id) = k)]

\* the records of page p, and res.NextPage (0 on the last page)
ListPRs(p) ==
    SubSeq(RemoteList, (p - 1) * PerPage + 1, Min(p * PerPage, Len(RemoteList)))
NextPage(p) == IF p * PerPage >= Len(RemoteList) THEN 0 ELSE p + 1

(***************************************************************************)
(* The Record Store                                                        *)
(***************************************************************************)
\* sql.ErrNoRows counts as up to date: the slip the absent-row branch guards against
isPRUpToDateNoRows(rows, p) ==
    IF ~rows[p.id].present THEN TRUE ELSE rows[p.id].updated_at = p.updatedAt

\* the check compares nothing: every record is reported stale
isPRUpToDateNever(rows, p) == FALSE

isPRUpToDate(rows, p) ==
    IF ~rows[p.id].present THEN FALSE ELSE rows[p.id].updated_at = p.updatedAt

\* UPSERT INTO prs: the columns the refresh queries and the check read
upsertPR(rows, p) ==
    [rows EXCEPT ![p.id] =
        [present |-> TRUE, number |-> p.id, updated_at |-> p.updatedAt,
         open |-> (p.state = "open"), merged |-> (p.state = "merged"),
         base_branch |-> p.base]]

CommitRow(c, i) == [sha |-> c.sha, message_id |-> MessageID(c), ordering |-> i]

\* the INSERTs alone, the DELETE left out: old rows stay in front
insertCommitsOnly(rows, id, loaded) ==
    [rows EXCEPT ![id] =
        rows[id] \o [k \in 1 .. Len(loaded.commits) |-> CommitRow(loaded.commits[k], k - 1)]]

\* DELETE FROM pr_commits WHERE pr_id = id, then one INSERT per loaded commit
replaceCommits(rows, id, loaded) ==
    [rows EXCEPT ![id] =
        [k \in 1 .. Len(loaded.commits) |-> CommitRow(loaded.commits[k], k - 1)]]

\* the write is made without the re-check inside the transaction
syncPRTxNoCheck(p, loaded) ==
    /\ prs' = upsertPR(prs, p)
    /\ pr_commits' = replaceCommits(pr_commits, p.id, loaded)
    /\ ev' = EvPR("pr-write", p)

\* the transaction of syncPR, committed
syncPRTx(p, loaded) ==
    IF isPRUpToDate(prs, p)
    THEN /\ UNCHANGED storeVars
         /\ ev' = EvPR("pr-skip", p)
    ELSE /\ prs' = upsertPR(prs, p)
         /\ pr_commits' = replaceCommits(pr_commits, p.id, loaded)
         /\ ev' = EvPR("pr-write", p)

(***************************************************************************)
(* repo.refresh                                                            *)
(***************************************************************************)
PRValue(id) == [number |-> prs[id].number, merged |-> prs[id].merged]

\* SELECT ... FROM pr_commits JOIN prs WHERE merged_at IS NOT NULL AND base_branch = 'master'
JoinedRows == UNION {{<<id, k>> : k \in DOMAIN pr_commits[id]} : id \in IDs}

MasterPRRows ==
    {r \in JoinedRows :
        /\ prs[r[1]].present
        /\ prs[r[1]].merged /\ prs[r[1]].base_branch = "master"}

\* the second query without its WHERE clause
BranchPRRowsUnfiltered == {r \in JoinedRows : prs[r[1]].present}

\* SELECT ... FROM pr_commits JOIN prs WHERE merged_at IS NOT NULL OR open
BranchPRRows ==
    {r \in JoinedRows :
        /\ prs[r[1]].present
        /\ (prs[r[1]].merged \/ prs[r[1]].open)}

\* the maps a loop `m[key(row)] = value(row)` over rows can leave: the last row
\* of a key wins, and the queries state no order; c maps each key to the
\* values its rows carry
RECURSIVE LastRowWins(_)
LastRowWins(c) ==
    IF DOMAIN c = {} THEN {<<>>}
    ELSE LET k == CHOOSE x \in DOMAIN c : TRUE
             rest == [x \in DOMAIN c \ {k} |-> c[x]]
         IN {f @@ (k :> v) : f \in LastRowWins(rest), v \in c[k]}

\* r.masterPRs[s] = pr
MasterPRMaps ==
    LET keys == {pr_commits[r[1]][r[2]].sha : r \in MasterPRRows}
        cand(s) == {PRValue(r[1]) : r \in {q \in MasterPRRows : pr_commits[q[1]][q[2]].sha = s}}
    IN LastRowWins([s \in keys |-> cand(s)])

\* r.branchPRs[messageID][baseBranch] = p
BranchPRMaps ==
    LET mid(r) == pr_commits[r[1]][r[2]].message_id
        mids == {mid(r) : r \in BranchPRRows}
        pairs == {<<mid(r), prs[r[1]].base_branch>> : r \in BranchPRRows}
        cand(pp) == {PRValue(r[1]) : r \in {q \in BranchPRRows :
                                    mid(q) = pp[1] /\ prs[q[1]].base_branch = pp[2]}}
        bases(m) == {pp[2] : pp \in {q \in pairs : q[1] = m}}
    IN {[m \in mids |-> [b \in bases(m) |-> f[<<m, b>>]]] :
            f \in LastRowWins([pp \in pairs |-> cand(pp)])}

\* the values a complete refresh can build from the mirror and the store
RefreshResults ==
    {[id               |-> RepoID,
      releaseBranches  |-> Branches,
      masterCommits    |-> loadCommits(MasterLog(mirror.master)),
      branchCommits    |-> [b \in BranchSet |-> loadCommits(BranchLog(b))],
      branchMergeBases |-> [b \in BranchSet |-> MergeBaseOf(b)],
      masterPRs        |-> m,
      branchPRs        |-> bp] : m \in MasterPRMaps, bp \in BranchPRMaps}

RefreshStages == 4

\* the receiver of refresh after it returned at stage k: 0 = the mainline load
\* failed, 1 = a branch load or merge-base failed, 2 = the first query failed,
\* 3 = the second query failed, RefreshStages = it returned nil
refreshInto(r, new, k) ==
    IF k = 0 THEN r
    ELSE IF k = 1 THEN [r EXCEPT !.masterCommits = new.masterCommits,
                                 !.branchCommits = <<>>, !.branchMergeBases = <<>>]
    ELSE IF k = 2 THEN [r EXCEPT !.masterCommits = new.masterCommits,
                                 !.branchCommits = new.branchCommits,
                                 !.branchMergeBases = new.branchMergeBases,
                                 !.masterPRs = <<>>]
    ELSE IF k = 3 THEN [new EXCEPT !.branchPRs = <<>>]
    ELSE new

\* refresh called on the published value itself: repo.refresh(db)
refreshReceiverInPlace(published, refreshed) == refreshed

\* what *repo holds after `repoCopy := *repo; repoCopy.refresh(db)`: the
\* receiver is the copy, and refresh assigns fresh maps to each field it builds
refreshReceiver(published, refreshed) == published

(***************************************************************************)
(* The forge changes                                                       *)
(***************************************************************************)
Noisy == /\ quiet' = 0
         /\ ev' = Ev("remote")
         /\ UNCHANGED <<mirror, storeVars, repos, repoLock, syncVars, readerVars, lastPass>>

\* a comment, label or edit: only the update timestamp moves
RemoteTouch(id, limit) ==
    /\ Clock < limit
    /\ remote' = [remote EXCEPT ![id].updatedAt = Clock + 1]
    /\ UNCHANGED gitMaster
    /\ Noisy

\* an open record is merged or closed
RemoteResolve(id, st, limit) ==
    /\ Clock < limit
    /\ remote[id].state = "open"
    /\ remote' = [remote EXCEPT ![id].updatedAt = Clock + 1, ![id].state = st]
    /\ UNCHANGED gitMaster
    /\ Noisy

\* a push to the branch of an open record
RemotePush(id, limit) ==
    /\ Clock < limit
    /\ remote[id].state = "open"
    /\ remote[id].head < MaxHead
    /\ remote' = [remote EXCEPT ![id].updatedAt = Clock + 1, ![id].head = @ + 1]
    /\ UNCHANGED gitMaster
    /\ Noisy

\* a push to mainline
PushMaster ==
    /\ gitMaster < MaxMaster
    /\ gitMaster' = gitMaster + 1
    /\ UNCHANGED remote
    /\ Noisy

(***************************************************************************)
(* syncLoop / syncAll / syncRepo                                           *)
(***************************************************************************)
Bump(n) == Min(quiet + n, 3)

\* syncLoop returns the error of syncAll instead of logging it
AbortStopsLoop(what, n) ==
    /\ pc' = "exit"
    /\ allPRs' = <<>>
    /\ page' = 1
    /\ repoCopy' = ZeroRepo
    /\ lastPass' = "err"
    /\ quiet' = Bump(n)
    /\ ev' = Ev(what)

\* syncRepo returns an error: syncAll returns it, syncLoop logs it and sleeps
Abort(what, n) ==
    /\ pc' = "sleep"
    /\ allPRs' = <<>>
    /\ page' = 1
    /\ repoCopy' = ZeroRepo
    /\ lastPass' = "err"
    /\ quiet' = Bump(n)
    /\ ev' = Ev(what)

\* <-time.After(30 * time.Second) fires and the loop calls syncAll again
Wake ==
    /\ pc = "sleep"
    /\ pc' = "start"
    /\ ev' = Ev("wake")
    /\ UNCHANGED <<forgeVars, mirror, storeVars, repos, repoLock, allPRs, page, repoCopy,
                   readerVars, lastPass, quiet, cycle>>

\* spawn("git", "-C", repo.path(), "fetch")
GitFetch(ok) ==
    /\ pc = "start"
    /\ IF ok
       THEN /\ mirror' = [master |-> gitMaster, heads |-> [id \in IDs |-> remote[id].head]]
            /\ pc' = "list"
            /\ quiet' = Bump(1)
            /\ ev' = Ev("fetch")
            /\ UNCHANGED <<allPRs, page, repoCopy, lastPass>>
       ELSE /\ Abort("fetch-err", 2)
            /\ UNCHANGED mirror
    /\ UNCHANGED <<forgeVars, storeVars, repos, repoLock, readerVars, cycle>>

\* one iteration of the paging loop: PullRequests.List, append, the NextPage
\* test, isPRUpToDate on the page's last record
ListPage(outcome) ==
    /\ pc = "list"
    /\ LET got == ListPRs(page)
           all == allPRs \o got
       IN IF outcome = "list-err" THEN Abort("list-err", 1)
          ELSE IF NextPage(page) = 0
          THEN /\ outcome = "ok"
               /\ allPRs' = all
               /\ pc' = "sync"
               /\ ev' = Ev("page-last")
               /\ UNCHANGED <<page, repoCopy, lastPass, quiet>>
          ELSE IF outcome = "query-err" THEN Abort("query-err", 1)
          ELSE IF isPRUpToDate(prs, got[Len(got)])
          THEN /\ allPRs' = all
               /\ pc' = "sync"
               /\ ev' = EvPR("page-stop", got[Len(got)])
               /\ UNCHANGED <<page, repoCopy, lastPass, quiet>>
          ELSE /\ allPRs' = all
               /\ page' = NextPage(page)
               /\ ev' = EvPR("page-next", got[Len(got)])
               /\ UNCHANGED <<pc, repoCopy, lastPass, quiet>>
    /\ UNCHANGED <<forgeVars, mirror, storeVars, repos, repoLock, readerVars, cycle>>

\* the records are processed in fetch order: `for i := range allPRs`
SyncPRForward(outcome) ==
    /\ pc = "sync"
    /\ allPRs # <<>>
    /\ LET p == allPRs[1]
           loaded == loadCommits(HeadLog(p.id, mirror.heads[p.id]))
       IN IF outcome # "ok"
          THEN /\ Abort(outcome, 1)
               /\ UNCHANGED storeVars
          ELSE /\ syncPRTx(p, loaded)
               /\ allPRs' = Tail(allPRs)
               /\ UNCHANGED <<pc, page, repoCopy, lastPass, quiet>>
    /\ UNCHANGED <<forgeVars, mirror, repos, repoLock, readerVars, cycle>>

\* one iteration of `for i := len(allPRs) - 1; i >= 0; i--`: syncPR(allPRs[i]);
\* allPRs holds allPRs[0..i], the records still to process
SyncPR(outcome) ==
    /\ pc = "sync"
    /\ allPRs # <<>>
    /\ LET p == allPRs[Len(allPRs)]
           loaded == loadCommits(HeadLog(p.id, mirror.heads[p.id]))
       IN IF outcome # "ok"
          THEN /\ Abort(outcome, 1)
               /\ UNCHANGED storeVars
          ELSE /\ syncPRTx(p, loaded)
               /\ allPRs' = SubSeq(allPRs, 1, Len(allPRs) - 1)
               /\ UNCHANGED <<pc, page, repoCopy, lastPass, quiet>>
    /\ UNCHANGED <<forgeVars, mirror, repos, repoLock, readerVars, cycle>>

\* the lock is taken before the rebuild instead of after it
RefreshHoldingLock(k) ==
    /\ pc = "sync"
    /\ allPRs = <<>>
    /\ ~repoLock.w /\ repoLock.r = 0
    /\ \E new \in RefreshResults :
         LET r == refreshInto(repos, new, k)
         IN /\ UNCHANGED repos
            /\ IF k = RefreshStages
               THEN /\ repoCopy' = r
                    /\ repoLock' = [repoLock EXCEPT !.w = TRUE]
                    /\ pc' = "assign"
                    /\ ev' = Ev("refresh")
                    /\ UNCHANGED <<allPRs, page, lastPass, quiet>>
               ELSE /\ Abort("refresh-err", 1)
                    /\ UNCHANGED repoLock
    /\ UNCHANGED <<forgeVars, mirror, storeVars, readerVars, cycle>>

\* repoCopy := *repo; repoCopy.refresh(db)
Refresh(k) ==
    /\ pc = "sync"
    /\ allPRs = <<>>
    /\ \E new \in RefreshResults :
         LET r == refreshInto(repos, new, k)
         IN /\ repos' = refreshReceiver(repos, r)
            /\ IF k = RefreshStages
               THEN /\ repoCopy' = r
                    /\ pc' = "lock"
                    /\ ev' = Ev("refresh")
                    /\ UNCHANGED <<allPRs, page, lastPass, quiet>>
               ELSE Abort("refresh-err", 1)
    /\ UNCHANGED <<forgeVars, mirror, storeVars, repoLock, readerVars, cycle>>

\* a writer is admitted although readers hold the lock
canLockIgnoringReaders(l) == ~l.w

\* sync.RWMutex: Lock is granted when no reader and no writer holds it
canLock(l) == ~l.w /\ l.r = 0

\* a reader is admitted although the writer holds the lock
canRLockIgnoringWriter(l) == TRUE

\* sync.RWMutex: RLock is granted when no writer holds it
canRLock(l) == ~l.w

\* repoLock.Lock()
Lock ==
    /\ pc = "lock"
    /\ canLock(repoLock)
    /\ repoLock' = [repoLock EXCEPT !.w = TRUE]
    /\ pc' = "assign"
    /\ ev' = Ev("lock")
    /\ UNCHANGED <<forgeVars, mirror, storeVars, repos, allPRs, page, repoCopy,
                   readerVars, lastPass, quiet, cycle>>

\* *repo = repoCopy
Assign ==
    /\ pc = "assign"
    /\ repos' = repoCopy
    /\ pc' = "unlock"
    /\ ev' = Ev("assign")
    /\ UNCHANGED <<forgeVars, mirror, storeVars, repoLock, allPRs, page, repoCopy,
                   readerVars, lastPass, quiet, cycle>>

\* repoLock.Unlock(); return nil; syncLoop sleeps
Unlock ==
    /\ pc = "unlock"
    /\ repoLock' = [repoLock EXCEPT !.w = FALSE]
    /\ pc' = "sleep"
    /\ repoCopy' = ZeroRepo
    /\ page' = 1
    /\ lastPass' = "ok"
    /\ quiet' = Bump(1)
    /\ ev' = Ev("published")
    /\ UNCHANGED <<forgeVars, mirror, storeVars, repos, allPRs, readerVars, cycle>>

(***************************************************************************)
(* serveBoard                                                              *)
(***************************************************************************)
\* the query parameters of a request; "" is a parameter that is not given
Request(r, b, a) == [repo |-> r, branch |-> b, author |-> a]
DefaultRequest == Request("", "", "")

\* strconv.Atoi on the repo parameters the requests carry
AtoiOK(s) == s \in {"1", "2"}
Atoi(s) == IF s = "1" THEN 1 ELSE 2

\* a nil *pr; a non-nil one carries the identity of the object it points to:
\* refresh allocates one pr per row, so per key of the map that holds it
NilPR == [nil |-> TRUE, ptr |-> 0, number |-> 0, merged |-> FALSE]

\* re.masterPRs[string(c.sha)]
masterPROf(r, c) ==
    IF c.sha \in DOMAIN r.masterPRs
    THEN [nil |-> FALSE, ptr |-> c.sha, number |-> r.masterPRs[c.sha].number,
          merged |-> r.masterPRs[c.sha].merged]
    ELSE NilPR

\* the lookup keyed by the hash of the commit instead of its fingerprint
backportPROfBySHA(r, c, b) ==
    IF <<c.sha>> \in DOMAIN r.branchPRs /\ b \in DOMAIN r.branchPRs[<<c.sha>>]
    THEN [nil |-> FALSE, ptr |-> 0, number |-> r.branchPRs[<<c.sha>>][b].number,
          merged |-> r.branchPRs[<<c.sha>>][b].merged]
    ELSE NilPR

\* re.branchPRs[c.MessageID()][branch] (only the number, merged and nil-ness of
\* the result are read)
backportPROf(r, c, b) ==
    IF MessageID(c) \in DOMAIN r.branchPRs /\ b \in DOMAIN r.branchPRs[MessageID(c)]
    THEN [nil |-> FALSE, ptr |-> 0, number |-> r.branchPRs[MessageID(c)][b].number,
          merged |-> r.branchPRs[MessageID(c)][b].merged]
    ELSE NilPR

\* _, backported := re.branchCommits[branch].messageIDs[c.MessageID()]
backported(r, c, b) ==
    /\ b \in DOMAIN r.branchCommits
    /\ MessageID(c) \in r.branchCommits[b].messageIDs

\* the condition of the first `if` of the loop
startsMasterSpan(lastMasterPR, masterPR) ==
    ~masterPR.nil /\ (lastMasterPR.nil \/ lastMasterPR.number # masterPR.number)

\* the test on the authoring record left out: commits without a backport
\* record always continue the span
continuesBackportSpanAnyMaster(lastBackportPR, backportPR, lastMasterPR, masterPR) ==
    \/ (lastBackportPR.nil /\ backportPR.nil)
    \/ (~lastBackportPR.nil /\ ~backportPR.nil /\ lastBackportPR.number = backportPR.number)

\* the condition negated by the second `if` of the loop; lastMasterPR is the
\* value after the first `if`, and != compares the two pointers
continuesBackportSpan(lastBackportPR, backportPR, lastMasterPR, masterPR) ==
    \/ (lastBackportPR.nil /\ backportPR.nil /\ lastMasterPR # masterPR)
    \/ (~lastBackportPR.nil /\ ~backportPR.nil /\ lastBackportPR.number = backportPR.number)

\* the second `if` left out: only a backport record gives a status
backportStatusOfRecordOnly(backportPR, inBranch) ==
    IF ~backportPR.nil THEN (IF backportPR.merged THEN "done" ELSE "pending") ELSE ""

\* backportStatus: "done" stands for the check mark, "pending" for the clock
backportStatusOf(backportPR, inBranch) ==
    IF inBranch THEN "done"
    ELSE IF ~backportPR.nil THEN (IF backportPR.merged THEN "done" ELSE "pending")
    ELSE ""

\* the state of the loop before its first iteration
AnnotateStart ==
    [acommits |-> <<>>, lastMasterPR |-> NilPR, masterPRStart |-> -1,
     lastBackportPR |-> NilPR, backportPRStart |-> -1]

\* iteration i (from 0) of `for i, c := range commits`
annotateStep(r, b, st, i, c) ==
    LET masterPR == masterPROf(r, c)
        newMaster == startsMasterSpan(st.lastMasterPR, masterPR)
        ac1 == IF newMaster /\ st.masterPRStart >= 0
               THEN [st.acommits EXCEPT
                        ![st.masterPRStart + 1].MasterPRRowSpan = i - st.masterPRStart]
               ELSE st.acommits
        lastMasterPR == IF newMaster THEN masterPR ELSE st.lastMasterPR
        backportPR == backportPROf(r, c, b)
        newBackport ==
            ~continuesBackportSpan(st.lastBackportPR, backportPR, lastMasterPR, masterPR)
        ac2 == IF newBackport /\ st.backportPRStart >= 0
               THEN [ac1 EXCEPT
                        ![st.backportPRStart + 1].BackportPRRowSpan = i - st.backportPRStart]
               ELSE ac1
    IN [acommits |->
            Append(ac2, [commit            |-> c,
                         BackportStatus    |-> backportStatusOf(backportPR, backported(r, c, b)),
                         MasterPR          |-> masterPR,
                         MasterPRRowSpan   |-> 0,
                         BackportPR        |-> backportPR,
                         BackportPRRowSpan |-> 0]),
        lastMasterPR    |-> lastMasterPR,
        masterPRStart   |-> IF newMaster THEN i ELSE st.masterPRStart,
        lastBackportPR  |-> IF newBackport THEN backportPR ELSE st.lastBackportPR,
        backportPRStart |-> IF newBackport THEN i ELSE st.backportPRStart]

RECURSIVE annotateLoop(_, _, _, _, _)
annotateLoop(r, b, cs, i, st) ==
    IF i = Len(cs) THEN st
    ELSE annotateLoop(r, b, cs, i + 1, annotateStep(r, b, st, i, cs[i + 1]))

\* the loop and the two `if`s after it that close the last spans
annotate(r, b, cs) ==
    LET st == annotateLoop(r, b, cs, 0, AnnotateStart)
        n == Len(st.acommits)
        ac1 == IF st.masterPRStart >= 0
               THEN [st.acommits EXCEPT
                        ![st.masterPRStart + 1].MasterPRRowSpan = n - st.masterPRStart]
               ELSE st.acommits
    IN IF st.backportPRStart >= 0
       THEN [ac1 EXCEPT ![st.backportPRStart + 1].BackportPRRowSpan = n - st.backportPRStart]
       ELSE ac1

\* the branch is taken from the request unchecked
selectBranchUnchecked(r, s) ==
    IF s # "" THEN [branch |-> s, err |-> ""]
    ELSE IF Len(r.releaseBranches) > 0 THEN [branch |-> r.releaseBranches[1], err |-> ""]
    ELSE [branch |-> "", err |-> ""]

\* the branch of the request: the given one when it is a release branch of re,
\* the first release branch when none is given
selectBranch(r, s) ==
    IF s # ""
    THEN IF \E k \in DOMAIN r.releaseBranches : r.releaseBranches[k] = s
         THEN [branch |-> s, err |-> ""]
         ELSE [branch |-> "", err |-> "not a release branch"]
    ELSE IF Len(r.releaseBranches) > 0
    THEN [branch |-> r.releaseBranches[1], err |-> ""]
    ELSE [branch |-> "", err |-> "no release branches"]

\* re.branchMergeBases[branch]: the empty hash for a branch the map lacks
mergeBase(r, b) == IF b \in DOMAIN r.branchMergeBases THEN r.branchMergeBases[b] ELSE 0

\* an author that is given but unknown is taken as no filter
filterAuthorLenient(cs, s) ==
    LET authors == {cs[k].author : k \in DOMAIN cs}
        keep(c) == c.author = s
    IN IF s = "" \/ s \notin authors THEN [commits |-> cs, err |-> ""]
       ELSE [commits |-> SelectSeq(cs, keep), err |-> ""]

\* the author filter: the authors of the commits in scope, the author whose
\* email is the given one, the commits of that author
filterAuthor(cs, s) ==
    LET authors == {cs[k].author : k \in DOMAIN cs}
        keep(c) == c.author = s
    IN IF s = "" THEN [commits |-> cs, err |-> ""]
       ELSE IF s \notin authors THEN [commits |-> <<>>, err |-> "not a recognized author"]
       ELSE [commits |-> SelectSeq(cs, keep), err |-> ""]

ReaderStep(what) ==
    /\ ev' = Ev(what)
    /\ UNCHANGED <<forgeVars, mirror, storeVars, repos, syncVars, lastPass, quiet, gitRepo>>

\* a request arrives: repoLock.RLock()
RLock(r) ==
    /\ rpc = "idle"
    /\ canRLock(repoLock)
    /\ repoLock' = [repoLock EXCEPT !.r = @ + 1]
    /\ rpc' = "copy"
    /\ req' = r
    /\ UNCHANGED <<re, commits, branch, acommits, err>>
    /\ ReaderStep("rlock")

\* the repo parameter is parsed and the repository looked up; re = re0 (or
\* repos[0]): the identity, the Commit Indices and merge-bases of the struct
CopyCommits ==
    /\ rpc = "copy"
    /\ IF req.repo # "" /\ ~AtoiOK(req.repo)
       THEN /\ err' = "invalid syntax"
            /\ rpc' = "respond"
            /\ UNCHANGED re
       ELSE /\ IF req.repo = "" \/ Atoi(req.repo) = repos.id
               THEN re' = [re EXCEPT !.id = repos.id,
                                     !.releaseBranches = repos.releaseBranches,
                                     !.masterCommits = repos.masterCommits,
                                     !.branchCommits = repos.branchCommits,
                                     !.branchMergeBases = repos.branchMergeBases]
               ELSE UNCHANGED re
            /\ rpc' = "copy2"
            /\ UNCHANGED err
    /\ UNCHANGED <<repoLock, commits, req, branch, acommits>>
    /\ ReaderStep("copy")

\* re = re0 (or repos[0]): the review indices of the struct
CopyPRs ==
    /\ rpc = "copy2"
    /\ IF req.repo = "" \/ Atoi(req.repo) = repos.id
       THEN re' = [re EXCEPT !.masterPRs = repos.masterPRs, !.branchPRs = repos.branchPRs]
       ELSE UNCHANGED re
    /\ rpc' = "truncate"
    /\ UNCHANGED <<repoLock, commits, req, branch, acommits, err>>
    /\ ReaderStep("copy2")

\* truncate cuts the published Commit Index itself instead of building a list
TruncateInPlace ==
    /\ rpc = "truncate"
    /\ LET sel == selectBranch(re, req.branch)
       IN IF sel.err # ""
          THEN /\ err' = sel.err
               /\ rpc' = "respond"
               /\ UNCHANGED <<branch, commits, repos>>
          ELSE /\ branch' = sel.branch
               /\ commits' = truncate(re.masterCommits, mergeBase(re, sel.branch))
               /\ repos' = [repos EXCEPT !.masterCommits.commits = commits']
               /\ rpc' = "annotate"
               /\ UNCHANGED err
    /\ ev' = Ev("truncate")
    /\ UNCHANGED <<forgeVars, mirror, storeVars, syncVars, lastPass, quiet, gitRepo,
                   repoLock, re, req, acommits>>

\* the branch is chosen; commits := re.masterCommits.truncate(re.branchMergeBases[branch])
Truncate ==
    /\ rpc = "truncate"
    /\ LET sel == selectBranch(re, req.branch)
       IN IF sel.err # ""
          THEN /\ err' = sel.err
               /\ rpc' = "respond"
               /\ UNCHANGED <<branch, commits>>
          ELSE /\ branch' = sel.branch
               /\ commits' = truncate(re.masterCommits, mergeBase(re, sel.branch))
               /\ rpc' = "annotate"
               /\ UNCHANGED err
    /\ UNCHANGED <<repoLock, re, req, acommits>>
    /\ ReaderStep("truncate")

\* the author filter and the loop that builds acommits
Annotate ==
    /\ rpc = "annotate"
    /\ LET f == filterAuthor(commits, req.author)
       IN IF f.err # ""
          THEN /\ err' = f.err
               /\ UNCHANGED <<commits, acommits>>
          ELSE /\ commits' = f.commits
               /\ acommits' = annotate(re, branch, f.commits)
               /\ UNCHANGED err
    /\ rpc' = "respond"
    /\ UNCHANGED <<repoLock, re, req, branch>>
    /\ ReaderStep("annotate")

\* the template is executed on re, branch and acommits, or the error is
\* returned; the deferred RUnlock runs
Respond ==
    /\ rpc = "respond"
    /\ repoLock' = [repoLock EXCEPT !.r = @ - 1]
    /\ rpc' = "idle"
    /\ re' = ZeroRepo
    /\ commits' = <<>>
    /\ req' = DefaultRequest
    /\ branch' = ""
    /\ acommits' = <<>>
    /\ err' = ""
    /\ ReaderStep("responded")

(***************************************************************************)
(* bootstrap                                                               *)
(***************************************************************************)
\* the byte of each character a release branch name is made of after "release-"
Byte == [c \in {"."} |-> 46] @@ [c \in {"0"} |-> 48] @@ [c \in {"1"} |-> 49] @@
        [c \in {"2"} |-> 50] @@ [c \in {"9"} |-> 57]

\* sort.StringSlice.Less: Go's < on strings, byte by byte
RECURSIVE StringLess(_, _)
StringLess(a, b) ==
    IF a = <<>> THEN b # <<>>
    ELSE IF b = <<>> THEN FALSE
    ELSE IF Byte[Head(a)] < Byte[Head(b)] THEN TRUE
    ELSE IF Byte[Head(a)] > Byte[Head(b)] THEN FALSE
    ELSE StringLess(Tail(a), Tail(b))

\* sort.Sort(sort.Reverse(sort.StringSlice(x))): x in descending string order
RECURSIVE sortReverseStrings(_)
sortReverseStrings(x) ==
    IF x = <<>> THEN <<>>
    ELSE LET k == CHOOSE i \in DOMAIN x : \A j \in DOMAIN x : ~StringLess(x[i], x[j])
             rest == [j \in 1 .. Len(x) - 1 |-> IF j < k THEN x[j] ELSE x[j + 1]]
         IN <<x[k]>> \o sortReverseStrings(rest)

\* the lines `git log --format=commitFormat` prints for commit objects, parsed
\* as loadCommits parses them: the format carries %H, %s, %cI, %aE and %P, so
\* the body of the commit message is not among the fields
gitLog(objs) ==
    [k \in DOMAIN objs |->
        Commit(objs[k].sha, objs[k].subject, objs[k].author, objs[k].parents > 1)]

\* parseSHA on the %H field of a line: hex.DecodeString, then the length test
parseSHA(l) ==
    IF ~l.hash.hex THEN [sha |-> 0, err |-> "encoding/hex: invalid byte"]
    ELSE IF l.hash.bytes # 20 THEN [sha |-> 0, err |-> "corrupt sha"]
    ELSE [sha |-> l.sha, err |-> ""]

\* a line whose hash or timestamp does not parse is left out and the scan goes on
RECURSIVE scanCommitsSkipping(_, _)
scanCommitsSkipping(cs, lines) ==
    IF lines = <<>> THEN [cs |-> cs, err |-> ""]
    ELSE IF parseSHA(Head(lines)).err # "" \/ ~Head(lines).dateOK
    THEN scanCommitsSkipping(cs, Tail(lines))
    ELSE scanCommitsSkipping(insert(cs, gitLog(<<Head(lines)>>)[1]), Tail(lines))

\* the scanner loop of loadCommits on the lines `git log` printed: the first
\* line whose hash or timestamp does not parse ends it with commits{} and the
\* error; otherwise the line's commit is inserted
RECURSIVE scanCommits(_, _)
scanCommits(cs, lines) ==
    IF lines = <<>> THEN [cs |-> cs, err |-> ""]
    ELSE IF parseSHA(Head(lines)).err # ""
    THEN [cs |-> EmptyCommits, err |-> parseSHA(Head(lines)).err]
    ELSE IF ~Head(lines).dateOK
    THEN [cs |-> EmptyCommits, err |-> "parsing time"]
    ELSE scanCommits(insert(cs, gitLog(<<Head(lines)>>)[1]), Tail(lines))

\* bootstrap for the one repository: the release branches are listed and
\* sorted, then repos[i].refresh(db) runs on the repository value itself; an
\* error, that of loadCommits on the mainline log or any other, makes run
\* return and the process exit
Bootstrap(ok) ==
    /\ pc = "boot"
    /\ LET names == sortReverseStrings(gitRepo.branches)
           set == {names[k] : k \in DOMAIN names}
           loaded == scanCommits(EmptyCommits, gitRepo.master)
       IN IF ok /\ loaded.err = ""
          THEN /\ \E m \in MasterPRMaps : \E bp \in BranchPRMaps :
                    repos' = [id               |-> RepoID,
                              releaseBranches  |-> names,
                              masterCommits    |-> loaded.cs,
                              branchCommits    |-> [b \in set |-> loadCommits(BranchLog(b))],
                              branchMergeBases |-> [b \in set |-> MergeBaseOf(b)],
                              masterPRs        |-> m,
                              branchPRs        |-> bp]
               /\ pc' = "start"
               /\ ev' = Ev("bootstrap")
          ELSE /\ repos' = [repos EXCEPT !.id = RepoID, !.releaseBranches = names]
               /\ pc' = "exit"
               /\ ev' = Ev("bootstrap-err")
    /\ UNCHANGED <<forgeVars, mirror, storeVars, repoLock, allPRs, page, repoCopy,
                   readerVars, lastPass, quiet, cycle>>

(***************************************************************************)
(* Specifications                                                          *)
(***************************************************************************)
\* everything but syncAll's loop
InitBase(n) ==
    /\ remote = [id \in 1 .. n |-> [updatedAt |-> id, state |-> "open", head |-> 0]]
    /\ gitMaster = 1
    /\ mirror = [master |-> 1, heads |-> [id \in 1 .. n |-> 0]]
    /\ prs = [id \in 1 .. n |-> NoRow]
    /\ pr_commits = [id \in 1 .. n |-> <<>>]
    /\ repos = [id               |-> RepoID,
                releaseBranches  |-> Branches,
                masterCommits    |-> loadCommits(MasterLog(1)),
                branchCommits    |-> [b \in BranchSet |-> loadCommits(BranchLog(b))],
                branchMergeBases |-> [b \in BranchSet |-> MergeBaseOf(b)],
                masterPRs        |-> <<>>,
                branchPRs        |-> <<>>]
    /\ repoLock = [w |-> FALSE, r |-> 0]
    /\ pc = "start"
    /\ allPRs = <<>>
    /\ page = 1
    /\ repoCopy = ZeroRepo
    /\ rpc = "idle"
    /\ re = ZeroRepo
    /\ ev = Ev("init")
    /\ commits = <<>>
    /\ req = DefaultRequest
    /\ branch = ""
    /\ acommits = <<>>
    /\ err = ""
    /\ gitRepo = NoGitRepo
    /\ lastPass = "none"
    /\ quiet = 0

InitWith(n) == InitBase(n) /\ cycle = NoCycle

SyncNext ==
    \/ Wake
    \/ \E ok \in BOOLEAN : GitFetch(ok)
    \/ \E o \in {"ok", "list-err", "query-err"} : ListPage(o)
    \/ \E o \in {"ok", "load-err", "tx-err"} : SyncPR(o)
    \/ \E k \in 0 .. RefreshStages : Refresh(k)
    \/ Lock
    \/ Assign
    \/ Unlock

ReaderNext(requests) ==
    \/ \E r \in requests : RLock(r)
    \/ CopyCommits
    \/ CopyPRs
    \/ Truncate
    \/ Annotate
    \/ Respond

Init == InitWith(NumFullPRs)

Next ==
    \/ SyncNext
    \/ ReaderNext({DefaultRequest})
    \/ \E id \in IDs : RemoteTouch(id, MaxFullTime)
    \/ \E id \in IDs : \E st \in {"merged", "closed"} : RemoteResolve(id, st, MaxFullTime)
    \/ \E id \in IDs : RemotePush(id, MaxFullTime)
    \/ PushMaster

Spec == Init /\ [][Next]_vars

InitPaging == InitWith(NumPRs)

NextPaging ==
    \/ SyncNext
    \/ \E id \in IDs : RemoteTouch(id, MaxTime)

SpecPaging == InitPaging /\ [][NextPaging]_vars

\* the sync loop alone, with every call of a pass returning and the timer firing
InitLoop == InitWith(NumFullPRs)

NextLoop ==
    \/ SyncNext
    \/ \E id \in IDs : RemoteTouch(id, MaxFullTime)
    \/ \E id \in IDs : \E st \in {"merged", "closed"} : RemoteResolve(id, st, MaxFullTime)

SpecLoop == InitLoop /\ [][NextLoop]_vars /\ WF_vars(SyncNext)

\* syncLoop calls syncAll: `for i := range repos` begins
CycleStart ==
    /\ cycle.i = 0
    /\ cycle' = [cycle EXCEPT !.i = 1, !.synced = <<>>, !.result = "none",
                              !.before = cycle.published]
    /\ ev' = Ev("cycle-start")
    /\ UNCHANGED <<forgeVars, mirror, storeVars, repos, repoLock, pc, allPRs, page,
                   repoCopy, readerVars, lastPass, quiet>>

\* the error of syncRepo is remembered and the loop goes on to the next entry
CycleSyncRepoKeepGoing(ok) ==
    /\ cycle.i \in 1 .. NumRepos
    /\ ok => cycle.published[cycle.i] < MaxPublished
    /\ LET i == cycle.i
           next == IF i = NumRepos THEN 0 ELSE i + 1
       IN IF ok
          THEN /\ cycle' = [cycle EXCEPT !.synced = Append(@, i),
                                         !.published[i] = @ + 1,
                                         !.i = next,
                                         !.result = IF next # 0 \/ cycle.result = "err"
                                                    THEN @ ELSE "ok"]
               /\ ev' = Ev("repo-synced")
          ELSE /\ cycle' = [cycle EXCEPT !.synced = Append(@, i), !.i = next,
                                         !.result = "err"]
               /\ ev' = Ev("repo-err")
    /\ UNCHANGED <<forgeVars, mirror, storeVars, repos, repoLock, pc, allPRs, page,
                   repoCopy, readerVars, lastPass, quiet>>

\* one iteration of syncAll's loop: syncRepo(&repos[i]) returns nil, having
\* assigned the rebuilt value to repos[i], or returns an error before that
\* assignment, and then syncAll returns the error
CycleSyncRepo(ok) ==
    /\ cycle.i \in 1 .. NumRepos
    /\ ok => cycle.published[cycle.i] < MaxPublished
    /\ LET i == cycle.i
           next == IF i = NumRepos THEN 0 ELSE i + 1
       IN IF ok
          THEN /\ cycle' = [cycle EXCEPT !.synced = Append(@, i),
                                         !.published[i] = @ + 1,
                                         !.i = next,
                                         !.result = IF next = 0 THEN "ok" ELSE @]
               /\ ev' = Ev("repo-synced")
          ELSE /\ cycle' = [cycle EXCEPT !.synced = Append(@, i), !.i = 0,
                                         !.result = "err"]
               /\ ev' = Ev("repo-err")
    /\ UNCHANGED <<forgeVars, mirror, storeVars, repos, repoLock, pc, allPRs, page,
                   repoCopy, readerVars, lastPass, quiet>>

\* the sync cycle over a configured list of NumRepos repositories
InitCycle ==
    /\ InitBase(NumFullPRs)
    /\ cycle = [NoCycle EXCEPT !.published = [r \in 1 .. NumRepos |-> 0],
                               !.before = [r \in 1 .. NumRepos |-> 0]]

NextCycle ==
    \/ CycleStart
    \/ \E ok \in BOOLEAN : CycleSyncRepo(ok)

SpecCycle == InitCycle /\ [][NextCycle]_vars

(***************************************************************************)
(* Properties                                                              *)
(***************************************************************************)
ErrEvents == {"fetch-err", "list-err", "query-err", "load-err", "tx-err", "refresh-err"}
StoredAt(id, t) == prs[id].present /\ prs[id].updated_at = t

\* C1: a request builds its response from one published repository value: when
\* serveBoard has copied the Commit Indices, merge-bases and review indices and
\* is building its response, all five are those of the value published at that
\* moment, whatever sync steps were interleaved with the copy.
C1_SnapshotAtomic ==
    rpc \in {"truncate", "annotate", "respond"} =>
        /\ re.masterCommits = repos.masterCommits
        /\ re.branchCommits = repos.branchCommits
        /\ re.branchMergeBases = repos.branchMergeBases
        /\ re.masterPRs = repos.masterPRs
        /\ re.branchPRs = repos.branchPRs

\* a request is building its response while a sync pass waits for the lock with
\* a rebuilt value whose Commit Index and review index both differ
C1_Witness ==
    /\ rpc = "respond"
    /\ pc = "lock"
    /\ repoCopy.masterCommits # repos.masterCommits
    /\ repoCopy.masterPRs # repos.masterPRs

\* C2: a failing sync pass leaves the published value as it was: a step that
\* returns an error changes nothing of repos, the only step that changes repos is
\* the assignment under the lock, and a pass that has reached the assignment no
\* longer fails.
C2_FailedPassKeepsSnapshot ==
    /\ [][ev'.op \in ErrEvents => repos' = repos]_vars
    /\ [][repos' # repos => (pc = "assign" /\ pc' = "unlock")]_vars
    /\ [][(pc \in {"lock", "assign", "unlock"} /\ pc' = "sleep") => lastPass' = "ok"]_vars

\* the rebuild has just failed although a complete rebuild would differ from
\* the published value in its Commit Index and its review index
C2_Witness ==
    /\ ev.op = "refresh-err"
    /\ lastPass = "err"
    /\ \A new \in RefreshResults :
          new.masterCommits # repos.masterCommits /\ new.masterPRs # repos.masterPRs

\* C9: after syncPR commits for a stale record, the stored constituent rows of
\* the record are the loaded commits, one row each, positions 0..n-1 in load
\* order, nothing left from the previous version, and the review row carries the
\* fetched update timestamp.
C9_RowsMirrorHead ==
    ev.op = "pr-write" =>
        LET log == HeadLog(ev.id, mirror.heads[ev.id])
            rows == pr_commits[ev.id]
        IN /\ Len(rows) = Len(log)
           /\ \A k \in 1 .. Len(log) :
                 /\ rows[k].sha = log[k].sha
                 /\ rows[k].message_id = log[k].title \o log[k].body
                 /\ rows[k].ordering = k - 1
           /\ StoredAt(ev.id, ev.at)

\* a record stored by an earlier complete pass is written again after a push
\* shortened its commit range
C9_Witness ==
    /\ ev.op = "pr-write"
    /\ lastPass = "ok"
    /\ mirror.heads[ev.id] > 0
    /\ Len(pr_commits[ev.id]) < Len(HeadLog(ev.id, 0))

InPass == pc # "sleep"
Last(q) == q[Len(q)]
Fetched == {allPRs[k].id : k \in DOMAIN allPRs}

\* C3 as stated: once a pass has completed without error and the remote list has
\* not changed since that pass ended, the next pass executes no write.
C3_NoWriteAfterCleanPass_Original ==
    (InPass /\ lastPass = "ok" /\ quiet >= 2) => ev.op # "pr-write"

\* C3 amended: once a pass has completed without error and the remote list has
\* not changed since that pass began, the next pass executes no write: every
\* syncPR of it ends at the read-only up-to-date check.
C3_NoWriteAfterQuietPass ==
    (InPass /\ lastPass = "ok" /\ quiet >= 3) => ev.op # "pr-write"

\* the pass after a quiet, complete pass has just checked a record and skipped it
C3_Witness ==
    /\ InPass /\ lastPass = "ok" /\ quiet >= 3
    /\ ev.op = "pr-skip"
    /\ StoredAt(ev.id, remote[ev.id].updatedAt)

\* C4: another page is requested only while the last record of the page before
\* is not stored with its fetched timestamp, so a page whose last record is
\* stored with its fetched timestamp ends the paging; and paging is stopped
\* early only on a record that is present in the store.
C4_EarlyStop ==
    /\ (pc = "list" /\ allPRs # <<>>) =>
          ~StoredAt(Last(allPRs).id, Last(allPRs).updatedAt)
    /\ ev.op = "page-next" => pc = "list"
    /\ ev.op = "page-stop" =>
          /\ pc = "sync"
          /\ prs[ev.id].present
          /\ prs[ev.id].updated_at = ev.at

\* paging has stopped early: the record that stopped it is stored and records
\* remain that no page of this pass has returned
C4_Witness ==
    /\ ev.op = "page-stop"
    /\ StoredAt(ev.id, ev.at)
    /\ Fetched # IDs
    /\ \E id \in IDs : ~prs[id].present

\* C5, in the case of a pass during which nothing changes remotely: whenever
\* paging stops early, every remote record not fetched in this pass is stored
\* with its remote update timestamp.
C5_EarlyStopSafe ==
    (ev.op = "page-stop" /\ quiet >= 1) =>
        \A id \in IDs \ Fetched : StoredAt(id, remote[id].updatedAt)

\* C6 as stated: a stored update timestamp never moves backwards.
C6_TimestampMonotonic ==
    [][\A id \in IDs :
         prs[id].present =>
            (prs'[id].present /\ prs'[id].updated_at >= prs[id].updated_at)]_vars

\* C7: the step at which a pass aborts writes nothing and ends the pass, no
\* store row changes outside a syncPR transaction, and in the pass that follows
\* an aborted one each syncPR writes its record exactly when the record is not
\* stored with the fetched timestamp, touching no other record.
C7_ResumeAfterAbort ==
    /\ [][ev'.op \in ErrEvents =>
            (UNCHANGED storeVars /\ pc' = "sleep" /\ allPRs' = <<>>)]_vars
    /\ [][~UNCHANGED storeVars => (pc = "sync" /\ ev'.op = "pr-write")]_vars
    /\ [][(lastPass = "err" /\ ev'.op \in {"pr-write", "pr-skip"}) =>
            LET p == Last(allPRs)
            IN /\ ev'.id = p.id /\ ev'.at = p.updatedAt
               /\ \A id \in IDs \ {p.id} :
                     prs'[id] = prs[id] /\ pr_commits'[id] = pr_commits[id]
               /\ IF StoredAt(p.id, p.updatedAt)
                  THEN ev'.op = "pr-skip" /\ UNCHANGED storeVars
                  ELSE /\ ev'.op = "pr-write"
                       /\ prs'[p.id].present
                       /\ prs'[p.id].updated_at = p.updatedAt]_vars

\* in the pass after an aborted one, a record committed before the abort has
\* just been skipped and a record that is not yet stored is next
C7_Witness ==
    /\ lastPass = "err"
    /\ ev.op = "pr-skip"
    /\ allPRs # <<>>
    /\ ~prs[Last(allPRs).id].present

\* every remote record is stored with its remote update timestamp
Converged == \A id \in IDs : StoredAt(id, remote[id].updatedAt)

\* C8, as the result of a pass: a pass that ran from start to end with no remote
\* change and returned nil leaves every record it fetched stored with its remote
\* timestamp, so the next pass stops at its first page and writes nothing (C3),
\* and so does every pass after it; the store converges exactly when it is
\* converged at the end of such a pass.
C8_Converges ==
    (pc = "sleep" /\ lastPass = "ok" /\ quiet >= 2) => Converged

(***************************************************************************)
(* The Commit Index of a request, enumerated                               *)
(***************************************************************************)
\* the author of the commit with hash h: two authors share the hashes
BoardAuthor(h) == IF h % 2 = 1 THEN "x" ELSE "y"
BoardCommits == {Commit(h, <<h>>, BoardAuthor(h), m) : h \in 1 .. NumShas, m \in BOOLEAN}

\* the requests made of the board: none of the parameters, the repository and
\* the branch by name, a repository id that no repository has, a repo parameter
\* that is no number, names that are no release branch, and authors
BoardRequests ==
    {DefaultRequest, Request("1", "release-1", ""), Request("2", "", ""),
     Request("2", "release-1", ""), Request("x", "", ""), Request("", "release-9", ""),
     Request("", "master", ""), Request("", "", "x"), Request("", "", "y"),
     Request("", "", "z")}

\* `git log` output: at most MaxLen commits, no hash twice
BoardLogs ==
    {q \in UNION {[1 .. n -> BoardCommits] : n \in 0 .. MaxLen} :
        \A i, j \in DOMAIN q : i # j => q[i].sha # q[j].sha}

\* a published value with any mainline Commit Index and any merge-base: a hash of
\* the index, a hash that is not in it, or the empty hash (0)
InitBoard ==
    /\ \E log \in BoardLogs : \E m \in 0 .. NumShas :
          repos = [id               |-> RepoID,
                   releaseBranches  |-> Branches,
                   masterCommits    |-> loadCommits(log),
                   branchCommits    |-> [b \in BranchSet |-> EmptyCommits],
                   branchMergeBases |-> [b \in BranchSet |-> m],
                   masterPRs        |-> <<>>,
                   branchPRs        |-> <<>>]
    /\ remote = [id \in 1 .. 1 |-> [updatedAt |-> 1, state |-> "open", head |-> 0]]
    /\ gitMaster = 1
    /\ mirror = [master |-> 1, heads |-> [id \in 1 .. 1 |-> 0]]
    /\ prs = [id \in 1 .. 1 |-> NoRow]
    /\ pr_commits = [id \in 1 .. 1 |-> <<>>]
    /\ repoLock = [w |-> FALSE, r |-> 0]
    /\ pc = "sleep"
    /\ allPRs = <<>>
    /\ page = 1
    /\ repoCopy = ZeroRepo
    /\ rpc = "idle"
    /\ re = ZeroRepo
    /\ commits = <<>>
    /\ req = DefaultRequest
    /\ branch = ""
    /\ acommits = <<>>
    /\ err = ""
    /\ gitRepo = NoGitRepo
    /\ ev = Ev("init")
    /\ lastPass = "none"
    /\ quiet = 0
    /\ cycle = NoCycle

SpecBoard == InitBoard /\ [][ReaderNext(BoardRequests)]_vars

C10_NotMerge(c) == ~c.merge
C10_Marker == re.branchMergeBases[branch]
C10_Hits == {k \in DOMAIN re.masterCommits.commits : re.masterCommits.commits[k].sha = C10_Marker}
C10_FirstHit == CHOOSE k \in C10_Hits : \A j \in C10_Hits : k <= j

\* C10: truncate(marker) returns, in index order, the non-merge commits before
\* the first commit whose hash is marker, and all non-merge commits of the index
\* when no commit has that hash (the empty marker included).
C10_Truncate ==
    rpc = "annotate" =>
        commits = SelectSeq(IF C10_Hits = {}
                            THEN re.masterCommits.commits
                            ELSE SubSeq(re.masterCommits.commits, 1, C10_FirstHit - 1),
                            C10_NotMerge)

\* the marker is in the index with a merge commit and a kept commit before it
\* and a non-merge commit after it
C10_Witness ==
    /\ rpc = "annotate"
    /\ C10_Hits # {}
    /\ commits # <<>>
    /\ \E k \in 1 .. C10_FirstHit - 1 : re.masterCommits.commits[k].merge
    /\ \E k \in DOMAIN re.masterCommits.commits :
          k > C10_FirstHit /\ ~re.masterCommits.commits[k].merge

(***************************************************************************)
(* The mirror bootstrap reads, enumerated                                  *)
(***************************************************************************)
\* release branch names after "release-", character by character
BranchNames ==
    {<<"1", ".", "2">>, <<"2", ".", "1">>, <<"1", "9", ".", "1">>, <<"2", ".", "0">>}

\* `git branch --list` prints the names in ascending order
BranchLists ==
    {q \in UNION {[1 .. n -> BranchNames] : n \in 0 .. MaxBranches} :
        \A i, j \in DOMAIN q : i < j => StringLess(q[i], q[j])}

\* commit objects: subject, body of the message, author, number of parents,
\* and what `git log` prints for %H (hex digits or not, the bytes they decode
\* to) and whether what it prints for %cI parses as RFC 3339
GitObject(h, s, b) ==
    [sha |-> h, subject |-> s, body |-> b, author |-> "x", parents |-> 1,
     hash |-> [hex |-> TRUE, bytes |-> 20], dateOK |-> TRUE]
GitSubjects == {<<"a">>, <<"a", "b">>}
GitBodies == {<<>>, <<"b">>, <<"c">>}

\* mainline histories of two commits
GitHistories ==
    {<<GitObject(2, s2, b2), GitObject(1, s1, b1)>> :
        s1 \in GitSubjects, s2 \in GitSubjects, b1 \in GitBodies, b2 \in GitBodies}

\* a line of the log that does not parse: a hash of 32 bytes (a SHA-256
\* repository), a hash field that is not hex, a timestamp that is not RFC 3339
GitCorruptions == {"32 bytes", "not hex", "bad date"}
GitCorrupt(objs, k, how) ==
    [objs EXCEPT ![k] = IF how = "32 bytes" THEN [@ EXCEPT !.hash.bytes = 32]
                        ELSE IF how = "not hex" THEN [@ EXCEPT !.hash.hex = FALSE]
                        ELSE [@ EXCEPT !.dateOK = FALSE]]

\* what `git log` prints for mainline: every line well-formed, or one line not
GitLogs ==
    GitHistories \cup
    {GitCorrupt(h, k, how) : h \in GitHistories, k \in 1 .. 2, how \in GitCorruptions}

InitBootstrap ==
    /\ gitRepo \in [branches : BranchLists, master : GitLogs]
    /\ remote = [id \in 1 .. 1 |-> [updatedAt |-> 1, state |-> "open", head |-> 0]]
    /\ gitMaster = 1
    /\ mirror = [master |-> 1, heads |-> [id \in 1 .. 1 |-> 0]]
    /\ prs = [id \in 1 .. 1 |-> NoRow]
    /\ pr_commits = [id \in 1 .. 1 |-> <<>>]
    /\ repos = ZeroRepo
    /\ repoLock = [w |-> FALSE, r |-> 0]
    /\ pc = "boot"
    /\ allPRs = <<>>
    /\ page = 1
    /\ repoCopy = ZeroRepo
    /\ rpc = "idle"
    /\ re = ZeroRepo
    /\ commits = <<>>
    /\ req = DefaultRequest
    /\ branch = ""
    /\ acommits = <<>>
    /\ err = ""
    /\ ev = Ev("init")
    /\ lastPass = "none"
    /\ quiet = 0
    /\ cycle = NoCycle

NextBootstrap == \E ok \in BOOLEAN : Bootstrap(ok)

SpecBootstrap == InitBootstrap /\ [][NextBootstrap]_vars

\* C11: after bootstrap has loaded the mainline, two of its commits have equal
\* fingerprints exactly when the commit objects they were loaded from have the
\* same subject and the same body, whatever their hashes.
C11_Fingerprint ==
    ev.op = "bootstrap" =>
        \A i, j \in DOMAIN gitRepo.master :
            (MessageID(repos.masterCommits.commits[i]) = MessageID(repos.masterCommits.commits[j]))
                <=> (/\ gitRepo.master[i].subject = gitRepo.master[j].subject
                     /\ gitRepo.master[i].body = gitRepo.master[j].body)

\* the number a string of digits denotes
RECURSIVE C20_Num(_, _)
C20_Num(digits, acc) ==
    IF digits = <<>> THEN acc
    ELSE C20_Num(Tail(digits), 10 * acc + (Byte[Head(digits)] - 48))

C20_Dot(name) == CHOOSE k \in DOMAIN name : name[k] = "."
\* the version components of a branch name
C20_Version(name) ==
    <<C20_Num(SubSeq(name, 1, C20_Dot(name) - 1), 0),
      C20_Num(SubSeq(name, C20_Dot(name) + 1, Len(name)), 0)>>
C20_Newer(a, b) ==
    \/ C20_Version(a)[1] > C20_Version(b)[1]
    \/ (C20_Version(a)[1] = C20_Version(b)[1] /\ C20_Version(a)[2] > C20_Version(b)[2])

\* C20: after bootstrap the release branches are listed newest version first,
\* the version components compared as numbers: every branch of the list is a
\* newer version than every branch after it, so the first is the highest.
C20_NewestFirst ==
    ev.op = "bootstrap" =>
        /\ Len(repos.releaseBranches) = Len(gitRepo.branches)
        /\ \A i, j \in DOMAIN repos.releaseBranches :
              i < j => C20_Newer(repos.releaseBranches[i], repos.releaseBranches[j])


(***************************************************************************)
(* The review indices of a request, enumerated                             *)
(***************************************************************************)
\* the k-th commit in scope, and the merge-base commit that ends the scope
RowCommit(k) == Commit(k, <<k>>, "x", FALSE)
RowBase == Commit(99, <<99>>, "x", FALSE)

\* what the snapshot holds about one commit in scope: the number of the merged
\* mainline record that contains its hash (0: none), the number of the record
\* based on the release branch that contains its fingerprint (0: none; 20 is
\* merged, 21 is open), and whether the release branch has its fingerprint
RowKinds == [master : {0, 10, 11}, backport : {0, 20, 21}, inBranch : BOOLEAN]

RowLists == UNION {[1 .. n -> RowKinds] : n \in 0 .. MaxRows}

\* the published value refresh builds for such a repository
RowRepo(rows) ==
    LET b == Branches[1]
        withMaster == {k \in DOMAIN rows : rows[k].master # 0}
        withBackport == {k \in DOMAIN rows : rows[k].backport # 0}
        inBranch == {k \in DOMAIN rows : rows[k].inBranch}
    IN [id               |-> RepoID,
        releaseBranches  |-> Branches,
        masterCommits    |-> loadCommits([k \in DOMAIN rows |-> RowCommit(k)] \o <<RowBase>>),
        branchCommits    |-> [x \in {b} |->
                                 [commits    |-> <<>>,
                                  shas       |-> {100 + k : k \in inBranch},
                                  messageIDs |-> {MessageID(RowCommit(k)) : k \in inBranch}]],
        branchMergeBases |-> [x \in {b} |-> RowBase.sha],
        masterPRs        |-> [h \in {RowCommit(k).sha : k \in withMaster} |->
                                 [number |-> rows[h].master, merged |-> TRUE]],
        branchPRs        |-> [m \in {MessageID(RowCommit(k)) : k \in withBackport} |->
                                 [x \in {b} |->
                                     [number |-> rows[m[1]].backport,
                                      merged |-> (rows[m[1]].backport = 20)]]]]

InitAnnotate ==
    /\ \E rows \in RowLists : repos = RowRepo(rows)
    /\ remote = [id \in 1 .. 1 |-> [updatedAt |-> 1, state |-> "open", head |-> 0]]
    /\ gitMaster = 1
    /\ mirror = [master |-> 1, heads |-> [id \in 1 .. 1 |-> 0]]
    /\ prs = [id \in 1 .. 1 |-> NoRow]
    /\ pr_commits = [id \in 1 .. 1 |-> <<>>]
    /\ repoLock = [w |-> FALSE, r |-> 0]
    /\ pc = "sleep"
    /\ allPRs = <<>>
    /\ page = 1
    /\ repoCopy = ZeroRepo
    /\ rpc = "idle"
    /\ re = ZeroRepo
    /\ commits = <<>>
    /\ req = DefaultRequest
    /\ branch = ""
    /\ acommits = <<>>
    /\ err = ""
    /\ gitRepo = NoGitRepo
    /\ ev = Ev("init")
    /\ lastPass = "none"
    /\ quiet = 0
    /\ cycle = NoCycle

SpecAnnotate == InitAnnotate /\ [][ReaderNext({DefaultRequest})]_vars

\* the response of a request that succeeded is about to be written
Served == rpc = "respond" /\ err = ""
\* the fingerprint of the i-th commit in scope
FingerprintAt(i) == commits[i].title \o commits[i].body
\* the number of the authoring record of the i-th commit in scope, 0 for none
AuthorNumAt(i) ==
    IF commits[i].sha \in DOMAIN re.masterPRs THEN re.masterPRs[commits[i].sha].number ELSE 0
HasBackportAt(i) ==
    /\ FingerprintAt(i) \in DOMAIN re.branchPRs
    /\ branch \in DOMAIN re.branchPRs[FingerprintAt(i)]
\* the number of the backport record of the i-th commit in scope, 0 for none
BackportNumAt(i) ==
    IF HasBackportAt(i) THEN re.branchPRs[FingerprintAt(i)][branch].number ELSE 0
InBranchAt(i) ==
    /\ branch \in DOMAIN re.branchCommits
    /\ FingerprintAt(i) \in re.branchCommits[branch].messageIDs

\* C12: in the annotated list a commit has a non-zero MasterPRRowSpan exactly
\* when it is the first commit or the number of its authoring record differs
\* from the previous commit's, none counting as a number of its own.
C12_AuthoringSpanStarts ==
    Served =>
        \A i \in DOMAIN acommits :
            (acommits[i].MasterPRRowSpan # 0) <=> (i = 1 \/ AuthorNumAt(i) # AuthorNumAt(i - 1))

\* C13: a commit in scope without an authoring record is in the annotated list
\* with an authoring span of length 1 of its own, and no authoring span that
\* starts before it reaches it.
C13_UnownedCommitOwnSpan ==
    Served =>
        /\ Len(acommits) = Len(commits)
        /\ \A i \in DOMAIN acommits :
              AuthorNumAt(i) = 0 =>
                 /\ acommits[i].commit = commits[i]
                 /\ acommits[i].MasterPRRowSpan = 1
                 /\ \A j \in 1 .. i - 1 : j + acommits[j].MasterPRRowSpan <= i

RECURSIVE C15_Sum(_, _)
C15_Sum(q, k) == IF k = 0 THEN 0 ELSE q[k] + C15_Sum(q, k - 1)
\* the place of the next span start after i, or one past the end of the list
C15_NextStart(spans, i) ==
    LET later == {j \in DOMAIN spans : j > i /\ spans[j] # 0}
    IN IF later = {} THEN Len(spans) + 1 ELSE CHOOSE j \in later : \A k \in later : j <= k
C15_Exact(spans) ==
    /\ \A i \in DOMAIN spans : spans[i] # 0 => spans[i] = C15_NextStart(spans, i) - i
    /\ C15_Sum(spans, Len(spans)) = Len(spans)
C15_MasterSpans == [i \in DOMAIN acommits |-> acommits[i].MasterPRRowSpan]
C15_BackportSpans == [i \in DOMAIN acommits |-> acommits[i].BackportPRRowSpan]

\* C15: the length of every span is the number of commits up to the next span
\* start of its kind or the end of the list, and the lengths of the spans of
\* each kind sum to the number of commits; three commits of #10, the first two
\* backported by #20 and the third not, give the authoring spans 3, 0, 0 and
\* the backport spans 2, 0, 1.
C15_SpanLengthsExact ==
    Served =>
        /\ C15_Exact(C15_MasterSpans)
        /\ C15_Exact(C15_BackportSpans)
        /\ (/\ Len(acommits) = 3
            /\ \A i \in 1 .. 3 : AuthorNumAt(i) = 10
            /\ BackportNumAt(1) = 20 /\ BackportNumAt(2) = 20 /\ BackportNumAt(3) = 0) =>
               /\ C15_MasterSpans = <<3, 0, 0>>
               /\ C15_BackportSpans = <<2, 0, 1>>

\* C16: the backport status of a commit is non-empty exactly when it has a
\* backport record or its fingerprint is in the branch's Commit Index, "done"
\* exactly when that record is merged or the fingerprint is in the index, and
\* "pending" exactly when the record exists, is not merged, and the fingerprint
\* is not in the index.
C16_BackportStatus ==
    Served =>
        \A i \in DOMAIN acommits :
            LET st == acommits[i].BackportStatus
                merged == HasBackportAt(i) /\ re.branchPRs[FingerprintAt(i)][branch].merged
            IN /\ (st # "") <=> (HasBackportAt(i) \/ InBranchAt(i))
               /\ (st = "done") <=> (merged \/ InBranchAt(i))
               /\ (st = "pending") <=> (HasBackportAt(i) /\ ~merged /\ ~InBranchAt(i))

\* a commit whose only sign of a backport is its fingerprint in the branch's
\* index, a commit with an open record that is also in the index, and a commit
\* with an open record that is not
C16_Witness ==
    /\ Served
    /\ \E i, j, k \in DOMAIN acommits :
          /\ ~HasBackportAt(i) /\ InBranchAt(i) /\ acommits[i].BackportStatus = "done"
          /\ BackportNumAt(j) = 21 /\ InBranchAt(j) /\ acommits[j].BackportStatus = "done"
          /\ BackportNumAt(k) = 21 /\ ~InBranchAt(k) /\ acommits[k].BackportStatus = "pending"


(***************************************************************************)
(* The Record Store of a request, enumerated                               *)
(***************************************************************************)
\* the row syncPR stores for record id fetched in state st
StoredPR(id, st) ==
    upsertPR([j \in {id} |-> NoRow],
             [id |-> id, updatedAt |-> 1, state |-> st, base |-> BaseBranch(id)])[id]

\* the rows syncPR stores for the commits of record id at head version h
StoredCommits(id, h) ==
    replaceCommits([j \in {id} |-> <<>>], id, loadCommits(HeadLog(id, h)))[id]

\* a store in which each record is absent or was stored in some state at some
\* head version, and the value a refresh publishes from it
InitIndex ==
    /\ remote = [id \in 1 .. NumPRs |-> [updatedAt |-> 1, state |-> "open", head |-> 0]]
    /\ gitMaster = 1
    /\ mirror = [master |-> 1, heads |-> [id \in 1 .. NumPRs |-> 0]]
    /\ \E st \in [1 .. NumPRs -> {"absent", "open", "merged", "closed"}] :
       \E h \in [1 .. NumPRs -> 0 .. MaxHead] :
          /\ prs = [id \in 1 .. NumPRs |->
                       IF st[id] = "absent" THEN NoRow ELSE StoredPR(id, st[id])]
          /\ pr_commits = [id \in 1 .. NumPRs |->
                              IF st[id] = "absent" THEN <<>> ELSE StoredCommits(id, h[id])]
    /\ repos \in RefreshResults
    /\ repoLock = [w |-> FALSE, r |-> 0]
    /\ pc = "sleep"
    /\ allPRs = <<>>
    /\ page = 1
    /\ repoCopy = ZeroRepo
    /\ rpc = "idle"
    /\ re = ZeroRepo
    /\ commits = <<>>
    /\ req = DefaultRequest
    /\ branch = ""
    /\ acommits = <<>>
    /\ err = ""
    /\ gitRepo = NoGitRepo
    /\ ev = Ev("init")
    /\ lastPass = "none"
    /\ quiet = 0
    /\ cycle = NoCycle

SpecIndex == InitIndex /\ [][ReaderNext({DefaultRequest, Request("1", "release-1", "")})]_vars

\* the stored records that contain a commit with fingerprint fp
C17_Containing(fp) ==
    {id \in DOMAIN prs :
        /\ prs[id].present
        /\ \E k \in DOMAIN pr_commits[id] : pr_commits[id][k].message_id = fp}
\* those of them the review index of branch b is built from
C17_Indexed(fp, b) ==
    {id \in C17_Containing(fp) : prs[id].base_branch = b /\ (prs[id].open \/ prs[id].merged)}

\* C17: the backport record of a commit in scope is a record of the review index
\* based on the request's branch that contains a commit with the fingerprint of
\* the mainline commit, whatever that commit's hash, and there is one whenever
\* the index holds such a record; a record based on another branch is not
\* returned.
C17_BackportByFingerprint ==
    Served =>
        \A i \in DOMAIN acommits :
            LET found == acommits[i].BackportPR
                cands == C17_Indexed(FingerprintAt(i), branch)
            IN /\ found.nil <=> cands = {}
               /\ ~found.nil => \E id \in cands : prs[id].number = found.number

\* the backport record of a mainline commit is found through a commit of another
\* hash, while a record based on mainline contains the same fingerprint
C17_Witness ==
    /\ Served
    /\ \E i \in DOMAIN acommits :
          /\ ~acommits[i].BackportPR.nil
          /\ \A id \in C17_Indexed(FingerprintAt(i), branch) :
                \A k \in DOMAIN pr_commits[id] : pr_commits[id][k].sha # commits[i].sha
          /\ \E id \in C17_Containing(FingerprintAt(i)) :
                prs[id].base_branch # branch /\ prs[id].merged


\* the commits in scope of the request: the non-merge commits of the mainline
\* index before the merge-base of the chosen branch
C18_Scope ==
    SelectSeq(IF C10_Hits = {}
              THEN re.masterCommits.commits
              ELSE SubSeq(re.masterCommits.commits, 1, C10_FirstHit - 1),
              C10_NotMerge)
C18_ByAuthor(c) == c.author = req.author

\* C18: a request with an author filter, once its branch is chosen, answers
\* with exactly the commits in scope of that author, in their order, when some
\* commit in scope has that author, and fails with an error and no commit list
\* when none has.
C18_AuthorFilter ==
    (rpc = "respond" /\ req.author # "" /\ branch # "") =>
        IF \E k \in DOMAIN C18_Scope : C18_Scope[k].author = req.author
        THEN /\ err = ""
             /\ [i \in DOMAIN acommits |-> acommits[i].commit] = SelectSeq(C18_Scope, C18_ByAuthor)
        ELSE /\ err # ""
             /\ acommits = <<>>

\* the filter kept two commits of the author and dropped a commit of another
\* author that lies between them
C18_Witness ==
    /\ rpc = "respond" /\ req.author # "" /\ err = ""
    /\ Len(acommits) = 2
    /\ \E k \in DOMAIN C18_Scope :
          /\ C18_Scope[k].author # req.author
          /\ k > 1 /\ k < Len(C18_Scope)
          /\ C18_Scope[k - 1] = acommits[1].commit
          /\ C18_Scope[k + 1] = acommits[2].commit

\* the branch the request is about: the given one, or the first release branch
\* of the repository the request selected; "" when there is none
C19_Branch ==
    IF req.branch # "" THEN req.branch
    ELSE IF re.releaseBranches # <<>> THEN re.releaseBranches[1]
    ELSE ""

\* C19: a request whose branch has no merge-base in the repository value it
\* selected (the zero value for an unknown repository) fails with an error and
\* builds no commit list.
C19_UnknownBranchFails ==
    (rpc = "respond" /\ C19_Branch \notin DOMAIN re.branchMergeBases) =>
        /\ err # ""
        /\ acommits = <<>>

\* a request for a name that is no release branch of the first repository has
\* failed although the mainline index has commits other than merges
C19_Witness ==
    /\ rpc = "respond"
    /\ req.repo = "" /\ req.branch = "release-9"
    /\ re.releaseBranches # <<>>
    /\ \E k \in DOMAIN re.masterCommits.commits : ~re.masterCommits.commits[k].merge
    /\ err # ""

(***************************************************************************)
(* The locks around publication and requests                               *)
(***************************************************************************)
WorkEvents == {"fetch", "page-last", "page-stop", "page-next", "pr-write", "pr-skip",
               "refresh"} \cup ErrEvents

\* C21: the sync pass holds the exclusive lock only around the assignment of
\* the already-built value: while it is held the pass is at the assignment or
\* the unlock, and no step that begins or ends with the lock held fetches the
\* mirror, lists the remote, touches the store or rebuilds the indices; a
\* reader holds the shared lock exactly from the start of serveBoard until its
\* response is complete.
C21_LockOnlyAroundAssign ==
    /\ [](repoLock.w => pc \in {"assign", "unlock"})
    /\ [][(repoLock.w \/ repoLock'.w) =>
            /\ UNCHANGED <<mirror, storeVars, allPRs, page>>
            /\ ev'.op \notin WorkEvents]_vars
    /\ [](repoLock.r = IF rpc = "idle" THEN 0 ELSE 1)

\* the exclusive lock is held over the assignment of a value whose review
\* index was rebuilt, while a request that arrives now has to wait
C21_Witness ==
    /\ repoLock.w
    /\ pc = "unlock"
    /\ rpc = "idle"
    /\ repos.masterPRs # <<>>

(***************************************************************************)
(* The background loop                                                     *)
(***************************************************************************)
PassSteps == {"start", "list", "sync", "lock", "assign", "unlock"}

\* C22: passes run one after another and the loop never stops: a pass is
\* started only from the sleep that follows the pass before, and whenever no
\* pass is running, after a pass that failed as after one that completed,
\* another pass is eventually started.
C22_LoopGoesOn ==
    /\ [][(pc' = "start" /\ pc # "start") => pc = "sleep"]_vars
    /\ [][(pc \in PassSteps /\ pc' \notin PassSteps) =>
            (pc' = "sleep" /\ lastPass' \in {"ok", "err"})]_vars
    /\ [](pc \notin PassSteps => <>(pc = "start"))

\* a pass is started after the pass before it failed
C22_Witness ==
    /\ pc = "start"
    /\ lastPass = "err"
    /\ ev.op = "wake"

(***************************************************************************)
(* Lines of the log that do not parse                                      *)
(***************************************************************************)
C23_BadLines ==
    {k \in DOMAIN gitRepo.master :
        \/ ~gitRepo.master[k].hash.hex
        \/ gitRepo.master[k].hash.bytes # 20
        \/ ~gitRepo.master[k].dateOK}

\* C23: when a line of the mainline log has a hash that does not decode to 20
\* bytes or a timestamp that does not parse, the refresh that loads it fails:
\* bootstrap returns the error and the Commit Index of the repository value
\* is left empty, never an index that holds the other lines' commits.
C23_CorruptLineFails ==
    (pc # "boot" /\ C23_BadLines # {}) =>
        /\ ev.op = "bootstrap-err"
        /\ pc = "exit"
        /\ repos.masterCommits = EmptyCommits

\* the load has failed on the second line, after a first line that parses
C23_Witness ==
    /\ pc = "exit"
    /\ C23_BadLines = {2}
    /\ gitRepo.master[2].hash.hex
    /\ gitRepo.master[2].hash.bytes # 20

(***************************************************************************)
(* The order of the transactions of a pass                                 *)
(***************************************************************************)
TxEvents == {"pr-write", "pr-skip"}

\* C24: within a pass the fetched records are processed in the reverse of
\* fetch order and only after paging has finished: while pages are being
\* listed the fetched records are appended in listing order and no
\* transaction runs, and each transaction is that of the last record, in
\* fetch order, of those not yet processed.
C24_ReverseOfFetchOrder ==
    /\ [][pc = "list" => (UNCHANGED storeVars /\ ev'.op \notin TxEvents)]_vars
    /\ [][(pc = "list" /\ pc' \in {"list", "sync"} /\ allPRs' # allPRs) =>
            /\ Len(allPRs') > Len(allPRs)
            /\ SubSeq(allPRs', 1, Len(allPRs)) = allPRs
            /\ \A k \in Len(allPRs) + 1 .. Len(allPRs') :
                  LET n == (page - 1) * PerPage + (k - Len(allPRs))
                      id == allPRs'[k].id
                  IN /\ allPRs'[k].updatedAt = remote[id].updatedAt
                     /\ Cardinality({j \in IDs :
                            remote[j].updatedAt > remote[id].updatedAt}) = n - 1]_vars
    /\ [][ev'.op \in TxEvents =>
            /\ pc = "sync"
            /\ allPRs # <<>>
            /\ ev'.id = Last(allPRs).id
            /\ ev'.at = Last(allPRs).updatedAt
            /\ allPRs' = SubSeq(allPRs, 1, Len(allPRs) - 1)]_vars

\* a record has just been written while a record fetched before it in the
\* same pass, with a later update time when it was listed, is still to come
C24_Witness ==
    /\ pc = "sync"
    /\ ev.op = "pr-write"
    /\ allPRs # <<>>
    /\ allPRs[1].id # ev.id
    /\ allPRs[1].updatedAt > ev.at

(***************************************************************************)
(* The commit-range load of syncPR                                         *)
(***************************************************************************)
\* C25: the commit range of a fetched record is loaded only when the record
\* is stale: a pass is aborted by a failing commit-range load only for a
\* record that is not stored with its fetched update timestamp.
C25_LoadOnlyWhenStale ==
    [][ev'.op = "load-err" =>
         /\ pc = "sync"
         /\ allPRs # <<>>
         /\ ~StoredAt(Last(allPRs).id, Last(allPRs).updatedAt)]_vars

(***************************************************************************)
(* The Commit Index after a load                                           *)
(***************************************************************************)
\* C26: after the inserts of a load, the sequence of the Commit Index holds
\* one record per line of the log in the order of the lines, its hash set is
\* the set of the hashes of those records and its fingerprint set the set of
\* their fingerprints.
C26_IndexMatchesInserts ==
    ev.op = "bootstrap" =>
        LET cs == repos.masterCommits
        IN /\ Len(cs.commits) = Len(gitRepo.master)
           /\ \A k \in DOMAIN gitRepo.master :
                 /\ cs.commits[k].sha = gitRepo.master[k].sha
                 /\ cs.commits[k].title = gitRepo.master[k].subject
           /\ cs.shas = {cs.commits[k].sha : k \in DOMAIN cs.commits}
           /\ cs.messageIDs =
                 {cs.commits[k].title \o cs.commits[k].body : k \in DOMAIN cs.commits}

\* two records were inserted that have different hashes and one fingerprint
C26_Witness ==
    /\ ev.op = "bootstrap"
    /\ Len(repos.masterCommits.commits) = 2
    /\ Cardinality(repos.masterCommits.shas) = 2
    /\ Cardinality(repos.masterCommits.messageIDs) = 1

(***************************************************************************)
(* Requests leave the published value and the store alone                  *)
(***************************************************************************)
\* C27: no step of a request, of one that is answered as of one that fails,
\* changes the published repository value or the store: every Commit Index,
\* merge-base map and review index of the published value, and every row of
\* the store, is after the step what it was before.
C27_RequestsReadOnly ==
    [][/\ repos' = repos
       /\ prs' = prs
       /\ pr_commits' = pr_commits]_vars

\* a request has been answered with a list that truncation and the author
\* filter made shorter than the published mainline index
C27_Witness ==
    /\ rpc = "respond"
    /\ err = ""
    /\ req.author # ""
    /\ acommits # <<>>
    /\ Len(acommits) + 2 <= Len(repos.masterCommits.commits)
    /\ Len(commits) < Len(truncate(repos.masterCommits, mergeBase(repos, branch)))

(***************************************************************************)
(* The sync cycle over the configured repositories                         *)
(***************************************************************************)
\* C28: in a cycle the repositories are synced in configured order, one after
\* the other, and the cycle stops at the first one whose pass fails: the
\* repositories before it have been republished once in this cycle and stay
\* so, the failing one and every later one have not been republished, and no
\* later one has been synced.
C28_StopsAtFirstFailure ==
    LET n == Len(cycle.synced)
    IN /\ cycle.synced = [k \in 1 .. n |-> k]
       /\ cycle.i # 0 =>
             /\ n = cycle.i - 1
             /\ cycle.result = "none"
             /\ \A r \in DOMAIN cycle.published :
                   cycle.published[r] = cycle.before[r] + (IF r <= n THEN 1 ELSE 0)
       /\ cycle.result = "err" =>
             /\ cycle.i = 0
             /\ n >= 1
             /\ \A r \in DOMAIN cycle.published :
                   cycle.published[r] = cycle.before[r] + (IF r < n THEN 1 ELSE 0)

\* a cycle has stopped at its second repository: the first was republished,
\* a third one was not reached
C28_Witness ==
    /\ cycle.result = "err"
    /\ cycle.i = 0
    /\ Len(cycle.synced) = 2
    /\ cycle.published[1] = cycle.before[1] + 1
    /\ \E r \in DOMAIN cycle.published : r > 2 /\ cycle.published[r] = cycle.before[r]

(***************************************************************************)
(* What the review indices hold                                            *)
(***************************************************************************)
\* the stored records with number n
C29_Numbered(n) == {id \in DOMAIN prs : prs[id].present /\ prs[id].number = n}

====
